---- MODULE Spec2Model ----
(***************************************************************************)
(* The reel generator: the POST handler of app/api/generate/route.ts (the  *)
(* event producer) and handleGenerate of the home page (the stream         *)
(* consumer).                                                              *)
(*                                                                         *)
(* Numbers: progress values are kept in hundredths (0.08 is 8, 1 is 100),  *)
(* so that they stay integers; the order of the values is the order of the *)
(* doubles.  Math.floor(duration * pct) is computed on hundredths as well: *)
(* for every duration 0..1999 and every beat percentage of the source the  *)
(* IEEE double product floors to (duration * hundredths) \div 100.         *)
(***************************************************************************)
EXTENDS Integers, Sequences, FiniteSets, TLC

(***************************************************************************)
(* Bounds of the model.                                                    *)
(***************************************************************************)
\* topics are strings of 0..MaxTopicLen characters
MaxTopicLen == 3
\* free-form length strings have 0..MaxLengthChars characters
MaxLengthChars == 3
\* every decimal numeral 0..MaxLengthValue is a length input as well
MaxLengthValue == 130
\* a response body carries 0..MaxLines lines
MaxLines == 2
\* handleGenerate invocations that may be in flight together, where the
\* submit button does not stand in the way
MaxCalls == 2

(***************************************************************************)
(* Strings are sequences of one-character strings.                         *)
(***************************************************************************)
Digits == <<"0", "1", "2", "3", "4", "5", "6", "7", "8", "9">>

DigitValue(c) == CHOOSE d \in 0..9 : Digits[d + 1] = c

IsDigit(c) == \E d \in 0..9 : Digits[d + 1] = c

RECURSIVE Decimal(_)
Decimal(n) == IF n < 10 THEN <<Digits[n + 1]>>
              ELSE Decimal(n \div 10) \o <<Digits[(n % 10) + 1]>>

Strings(alphabet, maxLen) == UNION {[1..n -> alphabet] : n \in 0..maxLen}

Max(a, b) == IF a >= b THEN a ELSE b

Min(a, b) == IF a <= b THEN a ELSE b

(***************************************************************************)
(* Number.parseInt(string, 10): leading white space is skipped, one sign   *)
(* is accepted, then the longest run of decimal digits is read; no digit   *)
(* gives NaN.                                                              *)
(***************************************************************************)
RECURSIVE SkipWhite(_)
SkipWhite(s) == IF s # <<>> /\ Head(s) = " " THEN SkipWhite(Tail(s)) ELSE s

RECURSIVE DigitRun(_)
DigitRun(s) == IF s # <<>> /\ IsDigit(Head(s)) THEN <<Head(s)>> \o DigitRun(Tail(s))
               ELSE <<>>

RECURSIVE DigitsValue(_, _)
DigitsValue(s, acc) == IF s = <<>> THEN acc
                       ELSE DigitsValue(Tail(s), acc * 10 + DigitValue(Head(s)))

parseInt(s) ==
    LET t == SkipWhite(s)
        signed == t # <<>> /\ Head(t) \in {"-", "+"}
        body == IF signed THEN Tail(t) ELSE t
        run == DigitRun(body)
    IN  IF run = <<>> THEN [isNaN |-> TRUE, value |-> 0]
        ELSE [isNaN |-> FALSE,
              value |-> IF signed /\ Head(t) = "-" THEN 0 - DigitsValue(run, 0)
                        ELSE DigitsValue(run, 0)]

(***************************************************************************)
(* The request body.  A field that the JSON body does not carry is absent. *)
(***************************************************************************)
LengthAlphabet == {"1", "5", "-", " ", "a"}

TopicInputs == Strings({"x"}, MaxTopicLen)

LengthInputs == {Decimal(n) : n \in 0..MaxLengthValue}
                \cup Strings(LengthAlphabet, MaxLengthChars)

Requests == [json : BOOLEAN,
             hasTopic : BOOLEAN, topicIsString : BOOLEAN, topic : TopicInputs,
             hasLength : BOOLEAN, lengthIsString : BOOLEAN,
             length : LengthInputs]

\* a body that is no JSON text carries no field; an absent field, or one
\* that is no string, carries no text
WellFormedRequest(r) ==
    /\ (~r.json => ~r.hasTopic /\ ~r.hasLength)
    /\ (~r.hasTopic => r.topicIsString)
    /\ (~r.hasLength => r.lengthIsString)
    /\ (~r.hasTopic \/ ~r.topicIsString => r.topic = <<>>)
    /\ (~r.hasLength \/ ~r.lengthIsString => r.length = <<>>)

\* z.string().min(3)
TopicOk(r) == r.hasTopic /\ r.topicIsString /\ Len(r.topic) >= 3

\* z.string().default("30")
LengthOk(r) == r.hasLength => r.lengthIsString

\* a variant that never throws on the fields of a body that is JSON
tryParseLenient(r) == r.json

\* the try of POST: request.json() and ReelRequestSchema.parse do not throw
tryParse(r) == r.json /\ TopicOk(r) /\ LengthOk(r)

\* ReelRequestSchema.parse: the defaults of the schema are applied
ReelRequestSchema(r) ==
    [topic |-> r.topic,
     length |-> IF r.hasLength THEN r.length ELSE <<"3", "0">>]

\* a variant that takes the schema's default for a length that is no number
targetDurationDefault30(payload) ==
    LET numeric == parseInt(payload.length)
    IN  IF numeric.isNaN THEN 30
        ELSE Min(Max(numeric.value, 15), 120)

targetDuration(payload) ==
    LET numeric == parseInt(payload.length)
    IN  IF numeric.isNaN THEN 45
        ELSE Min(Max(numeric.value, 15), 120)

(***************************************************************************)
(* buildTimeline: the map over beatPercents, with its running cursor.      *)
(***************************************************************************)
beatPercents == <<18, 24, 20, 20, 18>>

getLabel == <<"Hook", "Pain Point", "Transformation", "Proof", "CTA">>

\* a variant whose last beat takes its percentage, not what is left
segmentDurationByPercent(index, cursor, duration) ==
    Max(3, (duration * beatPercents[index]) \div 100)

\* a variant without the floor of three seconds
segmentDurationNoFloor(index, cursor, duration) ==
    IF index = Len(beatPercents) THEN duration - cursor
    ELSE (duration * beatPercents[index]) \div 100

segmentDurationAt(index, cursor, duration) ==
    LET isLast == index = Len(beatPercents)
        first == IF isLast THEN Max(duration - cursor, 3)
                 ELSE Max(3, (duration * beatPercents[index]) \div 100)
    IN  IF ~isLast /\ cursor + first >= duration
        THEN Max(3, duration - cursor - 3)
        ELSE first

RECURSIVE timelineFrom(_, _, _)
timelineFrom(index, cursor, duration) ==
    IF index > Len(beatPercents) THEN <<>>
    ELSE LET d == segmentDurationAt(index, cursor, duration)
         IN  <<[id |-> index, label |-> getLabel[index],
                start |-> cursor, duration |-> d]>>
             \o timelineFrom(index + 1, cursor + d, duration)

buildTimeline(duration) == timelineFrom(1, 0, duration)

(***************************************************************************)
(* The templates: the text is a function of the brief's fields.            *)
(***************************************************************************)
buildScript(topic) == <<"script", topic>>

buildOverlayPlan(topic) == <<"overlays", topic>>

buildVoicePlan(topic) == <<"voicePlan", <<>>>>

\* the progress of the ten events, in hundredths
eventProgressSkewed == <<8, 24, 42, 58, 70, 82, 94, 90, 98, 100>>

eventProgress == <<8, 24, 42, 58, 70, 82, 90, 94, 98, 100>>

\* the detail of the ideation status quotes the topic in curly quotes, which
\* are not ASCII (U+201C); the other details are ASCII text
eventSequence(payload) ==
    LET duration == targetDuration(payload)
        segs == buildTimeline(duration)
        script == buildScript(payload.topic)
        overlays == buildOverlayPlan(payload.topic)
        voicePlan == buildVoicePlan(payload.topic)
    IN  << [type |-> "status", id |-> "briefing", detail |-> "text",
            progress |-> eventProgress[1]],
           [type |-> "status", id |-> "ideation", detail |-> "U+201C",
            progress |-> eventProgress[2]],
           [type |-> "asset", id |-> "script", artifact |-> "script",
            content |-> script, progress |-> eventProgress[3]],
           [type |-> "status", id |-> "shotlist", detail |-> "text",
            progress |-> eventProgress[4]],
           [type |-> "timeline", id |-> "timeline", segments |-> segs,
            progress |-> eventProgress[5]],
           [type |-> "status", id |-> "voice", detail |-> "text",
            progress |-> eventProgress[6]],
           [type |-> "asset", id |-> "voice-plan", artifact |-> "voicePlan",
            content |-> voicePlan, progress |-> eventProgress[7]],
           [type |-> "asset", id |-> "overlay-plan", artifact |-> "overlays",
            content |-> overlays, progress |-> eventProgress[8]],
           [type |-> "status", id |-> "render", detail |-> "text",
            progress |-> eventProgress[9]],
           [type |-> "result", id |-> "delivery", progress |-> eventProgress[10],
            deliverables |-> [topic |-> payload.topic, duration |-> duration,
                              script |-> script, overlays |-> overlays,
                              segments |-> segs, voicePlan |-> voicePlan]] >>

(***************************************************************************)
(* JSON text.  A text is a sequence of tokens, each token a string: the    *)
(* braces, a key, the text of a value, "null", a blank, the line feed.  An *)
(* object is written as  { key value key value ... } ; the value of        *)
(* deliverables is an object itself.  A string value is its own token, any *)
(* other value is written by ToString.                                     *)
(***************************************************************************)
EventKeys == <<"type", "id", "artifact", "detail", "content", "segments",
               "progress", "deliverables">>

DeliverableKeys == <<"topic", "duration", "script", "overlays", "segments",
                     "voicePlan">>

StringKeys == {"type", "id", "artifact", "detail"}

Structural == {"{", "}", "\n", " "}

RECURSIVE stringifyFlat(_, _, _)
stringifyFlat(obj, keys, i) ==
    IF i > Len(keys) THEN <<>>
    ELSE (IF keys[i] \in DOMAIN obj THEN <<keys[i], ToString(obj[keys[i]])>>
          ELSE <<>>)
         \o stringifyFlat(obj, keys, i + 1)

RECURSIVE stringifyMembers(_, _)
stringifyMembers(event, i) ==
    IF i > Len(EventKeys) THEN <<>>
    ELSE LET k == EventKeys[i]
         IN  (IF k \notin DOMAIN event THEN <<>>
              ELSE IF k = "deliverables"
                   THEN <<k, "{">> \o stringifyFlat(event[k], DeliverableKeys, 1)
                        \o <<"}">>
              ELSE IF k \in StringKeys THEN <<k, event[k]>>
              ELSE <<k, ToString(event[k])>>)
             \o stringifyMembers(event, i + 1)

\* JSON.stringify of an event of the producer
stringify(event) == <<"{">> \o stringifyMembers(event, 1) \o <<"}">>

\* error.message of what the try of POST threw: of request.json() for a body
\* that is no JSON, of the ZodError otherwise
errorMessage(r) == IF r.json THEN "ZodError" ELSE "SyntaxError"

\* JSON.stringify of the body of the 400 response
stringifyError(details) ==
    <<"{", "error", "Invalid request payload", "details", details, "}">>

(***************************************************************************)
(* UTF-8.  The curly quote U+201C takes three bytes, every other token     *)
(* stands for ASCII text and is its own byte.                              *)
(***************************************************************************)
Utf8Quote == <<"E2", "80", "9C">>

\* TextEncoder.encode, one half of the text after the other
RECURSIVE encode(_)
encode(text) ==
    IF text = <<>> THEN <<>>
    ELSE IF Len(text) = 1
    THEN (IF text[1] = "U+201C" THEN Utf8Quote ELSE text)
    ELSE encode(SubSeq(text, 1, Len(text) \div 2))
         \o encode(SubSeq(text, Len(text) \div 2 + 1, Len(text)))

(***************************************************************************)
(* TextDecoder.decode(value, {stream: true}): the bytes of a character     *)
(* that the chunk cuts are kept in the decoder until the rest arrives; a   *)
(* byte sequence that is not UTF-8 decodes to U+FFFD.                      *)
(***************************************************************************)
\* one byte: it continues the character that is pending, or else what is
\* pending was no character (U+FFFD) and the byte starts afresh
decodeByte(b, pending) ==
    IF Utf8Quote[Len(pending) + 1] = b
    THEN IF Len(pending) + 1 = Len(Utf8Quote)
         THEN [text |-> <<"U+201C">>, pending |-> <<>>]
         ELSE [text |-> <<>>, pending |-> Append(pending, b)]
    ELSE [text |-> (IF pending # <<>> THEN <<"U+FFFD">> ELSE <<>>)
                   \o (IF b = Utf8Quote[1] THEN <<>>
                       ELSE IF \E k \in 2..Len(Utf8Quote) : Utf8Quote[k] = b
                       THEN <<"U+FFFD">>
                       ELSE <<b>>),
          pending |-> IF b = Utf8Quote[1] THEN <<b>> ELSE <<>>]

decodeJoin(first, rest) ==
    [text |-> first.text \o rest.text, pending |-> rest.pending]

\* the bytes in order, one half after the other, the second half from the
\* state the first has left the decoder in
RECURSIVE decode(_, _)
decodeThen(first, bytes) == decodeJoin(first, decode(bytes, first.pending))

decode(bytes, pending) ==
    IF bytes = <<>> THEN [text |-> <<>>, pending |-> pending]
    ELSE IF Len(bytes) = 1 THEN decodeByte(bytes[1], pending)
    ELSE decodeThen(decode(SubSeq(bytes, 1, Len(bytes) \div 2), pending),
                    SubSeq(bytes, Len(bytes) \div 2 + 1, Len(bytes)))

(***************************************************************************)
(* String.split("\n") and String.trim.                                     *)
(***************************************************************************)
\* the pieces of two texts put end to end: the last piece of the first and
\* the first piece of the second are one piece
splitJoin(first, rest) ==
    SubSeq(first, 1, Len(first) - 1)
    \o <<first[Len(first)] \o rest[1]>>
    \o Tail(rest)

RECURSIVE split(_)
split(text) ==
    IF text = <<"\n">> THEN << <<>>, <<>> >>
    ELSE IF Len(text) <= 1 THEN <<text>>
    ELSE splitJoin(split(SubSeq(text, 1, Len(text) \div 2)),
                   split(SubSeq(text, Len(text) \div 2 + 1, Len(text))))

RECURSIVE trimEnd(_)
trimEnd(s) == IF s # <<>> /\ s[Len(s)] = " " THEN trimEnd(SubSeq(s, 1, Len(s) - 1))
              ELSE s

trim(s) == trimEnd(SkipWhite(s))

(***************************************************************************)
(* JSON.parse of one line: an object becomes the function from its keys to *)
(* the texts of their values (a later key wins), the value of a key that   *)
(* opens a brace is an object of its own (the lines of the endpoint carry  *)
(* at most one, deliverables); "null" is null; any other text is a         *)
(* SyntaxError.                                                            *)
(***************************************************************************)
EmptyObject == [k \in {} |-> ""]

\* the first place of tok in toks, 0 when there is none
IndexOf(toks, tok) ==
    IF \E j \in 1..Len(toks) : toks[j] = tok
    THEN CHOOSE j \in 1..Len(toks) :
             toks[j] = tok /\ \A h \in 1..(j - 1) : toks[h] # tok
    ELSE 0

\* key value key value ...
membersOk(toks) ==
    /\ Len(toks) % 2 = 0
    /\ \A i \in 1..Len(toks) : toks[i] \notin Structural

membersOf(toks) ==
    LET n == Len(toks) \div 2
    IN  [k \in {toks[2 * i - 1] : i \in 1..n} |->
            toks[2 * (CHOOSE i \in 1..n :
                         /\ toks[2 * i - 1] = k
                         /\ \A j \in (i + 1)..n : toks[2 * j - 1] # k)]]

parseObject(toks) ==
    LET open == IndexOf(toks, "{")
        close == IndexOf(toks, "}")
    IN  IF open = 0
        THEN [ok |-> membersOk(toks),
              obj |-> IF membersOk(toks) THEN membersOf(toks) ELSE EmptyObject]
        ELSE LET outer == SubSeq(toks, 1, open - 2)
                          \o SubSeq(toks, close + 1, Len(toks))
                 inner == SubSeq(toks, open + 1, close - 1)
                 fine == /\ open % 2 = 0
                         /\ close > open
                         /\ toks[open - 1] \notin Structural
                         /\ membersOk(outer)
                         /\ membersOk(inner)
             IN  [ok |-> fine,
                  obj |-> IF fine
                          THEN (toks[open - 1] :> membersOf(inner)) @@ membersOf(outer)
                          ELSE EmptyObject]

JSONparse(line) ==
    LET t == trim(line)
    IN  IF t = <<"null">> THEN [ok |-> TRUE, isNull |-> TRUE, obj |-> EmptyObject]
        ELSE IF Len(t) >= 2 /\ t[1] = "{" /\ t[Len(t)] = "}"
             THEN [isNull |-> FALSE] @@ parseObject(SubSeq(t, 2, Len(t) - 1))
        ELSE [ok |-> FALSE, isNull |-> FALSE, obj |-> EmptyObject]

Numerals == [n \in 0..100 |-> ToString(n)]

\* the number that a numeral of the wire denotes, in hundredths
NumberOf(tok) == CHOOSE n \in 0..100 : Numerals[n] = tok

(***************************************************************************)
(* The fold of one parsed payload into the state of the page (the body of  *)
(* the for loop of handleGenerate).  ui is the record of the state hooks;  *)
(* log lists the lines handed to JSON.parse since the last reset, each     *)
(* with the mark of the invocation that read it.                           *)
(***************************************************************************)
null == "null"

NullResult == [isNull |-> TRUE]

EmptyArray == ToString(<<>>)

Field(payload, key) == IF key \in DOMAIN payload THEN payload[key] ELSE "undefined"

\* a variant that forgets the spread of prev
setAssetVaultFresh(prev, payload) == (Field(payload, "artifact") :> payload)

\* setAssetVault((prev) => ({ ...prev, [payload.artifact]: payload }))
setAssetVault(prev, payload) == (Field(payload, "artifact") :> payload) @@ prev

\* a variant that takes the latest value instead of the maximum
setProgressLatest(prev, payload) ==
    IF "progress" \in DOMAIN payload THEN NumberOf(payload["progress"]) ELSE prev

\* setProgress((prev) => Math.max(prev, payload.progress ?? prev))
setProgress(prev, payload) ==
    Max(prev, IF "progress" \in DOMAIN payload THEN NumberOf(payload["progress"])
              ELSE prev)

\* a variant that puts a status event in front of the feed
applyPayloadPrepend(ui, payload) ==
    LET type == Field(payload, "type")
        u == [ui EXCEPT !.progress = setProgress(ui.progress, payload)]
    IN  IF type = "status"
        THEN [u EXCEPT !.statusFeed = <<payload>> \o u.statusFeed]
        ELSE IF type = "asset"
        THEN [u EXCEPT !.assetVault = setAssetVault(u.assetVault, payload)]
        ELSE IF type = "timeline"
        THEN [u EXCEPT !.segments = Field(payload, "segments")]
        ELSE IF type = "result"
        THEN [u EXCEPT !.result = [isNull |-> FALSE,
                                   value |-> Field(payload, "deliverables")],
                       !.progress = 100]
        ELSE u

applyPayload(ui, payload) ==
    LET type == Field(payload, "type")
        u == [ui EXCEPT !.progress = setProgress(ui.progress, payload)]
    IN  IF type = "status"
        THEN [u EXCEPT !.statusFeed = Append(u.statusFeed, payload)]
        ELSE IF type = "asset"
        THEN [u EXCEPT !.assetVault = setAssetVault(u.assetVault, payload)]
        ELSE IF type = "timeline"
        THEN [u EXCEPT !.segments = Field(payload, "segments")]
        ELSE IF type = "result"
        THEN [u EXCEPT !.result = [isNull |-> FALSE,
                                   value |-> Field(payload, "deliverables")],
                       !.progress = 100]
        ELSE u

\* for (const line of lines): a blank line is skipped, a throw ends the loop
RECURSIVE forLines(_, _, _)
foldLine(ui, parsed, rest, stale) ==
    IF ~parsed.ok THEN [ui EXCEPT !.thrown = "Unexpected token in JSON"]
    ELSE IF parsed.isNull THEN [ui EXCEPT !.thrown = "Cannot read properties of null"]
    ELSE forLines(applyPayload(ui, parsed.obj), rest, stale)

forLines(ui, lines, stale) ==
    IF lines = <<>> THEN ui
    ELSE IF trim(Head(lines)) = <<>> THEN forLines(ui, Tail(lines), stale)
    ELSE foldLine([ui EXCEPT !.log = Append(ui.log, [line |-> Head(lines),
                                                     stale |-> stale])],
                  JSONparse(Head(lines)), Tail(lines), stale)

\* one turn of the while loop on a chunk: decode, append, split, keep the
\* last piece as the buffer, fold the lines before it
\* a variant that empties the buffer instead of keeping the last piece
foldPiecesDropRest(ui, pieces, pending, stale) ==
    [ui |-> forLines(ui, SubSeq(pieces, 1, Len(pieces) - 1), stale),
     buffer |-> <<>>,
     pending |-> pending]

foldPieces(ui, pieces, pending, stale) ==
    [ui |-> forLines(ui, SubSeq(pieces, 1, Len(pieces) - 1), stale),
     buffer |-> pieces[Len(pieces)],
     pending |-> pending]

foldDecoded(ui, call, decoded) ==
    foldPieces(ui, split(call.buffer \o decoded.text), decoded.pending, call.stale)

readTurn(ui, call, chunk) == foldDecoded(ui, call, decode(chunk, call.pending))

(***************************************************************************)
(* The response bodies the page is fed: lines of the endpoint's events,    *)
(* of an event of a type the page does not know, lines that are no JSON,   *)
(* blank lines, each ended by a line feed, and possibly an unended tail.   *)
(***************************************************************************)
WireEvents ==
    << [type |-> "status", detail |-> "U+201C", progress |-> 24],
       [type |-> "asset", artifact |-> "script", content |-> 1, progress |-> 42],
       [type |-> "asset", artifact |-> "script", content |-> 2],
       [type |-> "asset", artifact |-> "overlays", content |-> 1, progress |-> 8],
       [type |-> "timeline", segments |-> <<7>>, progress |-> 70],
       [type |-> "result", progress |-> 100, deliverables |-> [duration |-> 45]],
       [type |-> "ping", progress |-> 50] >>

EventLines == {stringify(WireEvents[i]) : i \in 1..Len(WireEvents)}

BrokenLine == <<"{", "type", "status">>

WireLines == EventLines \cup {BrokenLine, <<" ">>, <<"null">>}

Tails == {<<>>, BrokenLine}

Bodies == [lines : Strings(WireLines, MaxLines), tail : Tails]

RECURSIVE joinLines(_)
joinLines(lines) == IF lines = <<>> THEN <<>>
                    ELSE Head(lines) \o <<"\n">> \o joinLines(Tail(lines))

bodyText(body) == joinLines(body.lines) \o body.tail

(***************************************************************************)
(* State of one POST request.                                              *)
(***************************************************************************)
VARIABLES
    request,     \* the JSON body of the request
    postPc,      \* "received", "rejected" (400), "streaming", "closed", "errored"
    events,      \* eventSequence of the request, once it is built
    enqueued,    \* what controller.enqueue has put on the response stream
    cancelled,   \* the client has cancelled the response stream
    response,    \* what POST has returned
    \* the state hooks of the page
    statusFeed, assetVault, segments, result, isGenerating, progress, error,
    calls,       \* the invocations of handleGenerate: in flight, or the last
    log          \* the lines handed to JSON.parse since the last reset

postVars == <<request, postPc, events, enqueued, cancelled, response>>

pageVars == <<statusFeed, assetVault, segments, result, isGenerating, progress,
              error, calls, log>>

vars == <<request, postPc, events, enqueued, cancelled, response, statusFeed, assetVault,
          segments, result, isGenerating, progress, error, calls, log>>

\* POST has not returned
NoResponse == [status |-> 0, stream |-> FALSE, body |-> <<>>]

\* useState: the page as it is first rendered
InitPage ==
    /\ statusFeed = <<>>
    /\ assetVault = EmptyObject
    /\ segments = EmptyArray
    /\ result = NullResult
    /\ isGenerating = FALSE
    /\ progress = 0
    /\ error = null
    /\ calls = <<>>
    /\ log = <<>>

InitPost ==
    /\ request \in {r \in Requests : WellFormedRequest(r)}
    /\ postPc = "received"
    /\ events = <<>>
    /\ enqueued = <<>>
    /\ cancelled = FALSE
    /\ response = NoResponse
    /\ InitPage

\* the catch of POST: the 400 response, and no stream
PostReject ==
    /\ postPc = "received"
    /\ ~tryParse(request)
    /\ postPc' = "rejected"
    /\ response' = [status |-> 400, stream |-> FALSE,
                    body |-> stringifyError(errorMessage(request))]
    /\ UNCHANGED <<request, events, enqueued, cancelled, pageVars>>

\* the schema accepts: the event sequence is built and the stream is returned
PostAccept ==
    /\ postPc = "received"
    /\ tryParse(request)
    /\ events' = eventSequence(ReelRequestSchema(request))
    /\ postPc' = "streaming"
    /\ response' = [status |-> 200, stream |-> TRUE, body |-> <<>>]
    /\ UNCHANGED <<request, enqueued, cancelled, pageVars>>

\* a variant whose loop does not notice the cancellation
PostEnqueueAfterCancel ==
    /\ postPc = "streaming"
    /\ Len(enqueued) < Len(events)
    /\ enqueued' = Append(enqueued,
                           encode(stringify(events[Len(enqueued) + 1]) \o <<"\n">>))
    /\ UNCHANGED <<request, postPc, events, cancelled, response, pageVars>>

\* one turn of the loop of start(): enqueue the next event, then the delay
PostEnqueue ==
    /\ postPc = "streaming"
    /\ ~cancelled
    /\ Len(enqueued) < Len(events)
    /\ enqueued' = Append(enqueued,
                           encode(stringify(events[Len(enqueued) + 1]) \o <<"\n">>))
    /\ UNCHANGED <<request, postPc, events, cancelled, response, pageVars>>

\* a variant that leaves the loop one turn early
PostCloseEarly ==
    /\ postPc = "streaming"
    /\ ~cancelled
    /\ Len(enqueued) >= Len(events) - 1
    /\ postPc' = "closed"
    /\ UNCHANGED <<request, events, enqueued, cancelled, response, pageVars>>

\* after the loop: controller.close()
PostClose ==
    /\ postPc = "streaming"
    /\ ~cancelled
    /\ Len(enqueued) = Len(events)
    /\ postPc' = "closed"
    /\ UNCHANGED <<request, events, enqueued, cancelled, response, pageVars>>

\* the client disconnects: cancel() of the stream, which is empty
PostCancel ==
    /\ postPc = "streaming"
    /\ ~cancelled
    /\ cancelled' = TRUE
    /\ UNCHANGED <<request, postPc, events, enqueued, response, pageVars>>

\* start() wakes from its delay on a cancelled stream: enqueue (or close)
\* throws a TypeError, which ends start()
PostThrow ==
    /\ postPc = "streaming"
    /\ cancelled
    /\ postPc' = "errored"
    /\ UNCHANGED <<request, events, enqueued, cancelled, response, pageVars>>

NextPost ==
    \/ PostReject
    \/ PostAccept
    \/ PostEnqueue
    \/ PostClose
    \/ PostCancel
    \/ PostThrow

SpecPost == InitPost /\ [][NextPost]_vars

(***************************************************************************)
(* Properties of the endpoint.                                             *)
(***************************************************************************)
EventTypeOrder == <<"status", "status", "asset", "status", "timeline", "status",
                    "asset", "asset", "status", "result">>

\* the line a chunk carries: the chunk without its last byte, decoded
ChunkLine(chunk) == decode(SubSeq(chunk, 1, Len(chunk) - 1), <<>>).text

OneLine(chunk) ==
    /\ chunk # <<>>
    /\ chunk[Len(chunk)] = "\n"
    /\ \A k \in 1..(Len(chunk) - 1) : chunk[k] # "\n"

TypeOfChunk(chunk) == Field(JSONparse(ChunkLine(chunk)).obj, "type")

\* C1: what POST has put on the stream is, chunk by chunk, one JSON object on
\* one line ended by a line feed, with the types status, status, asset,
\* status, timeline, status, asset, asset, status, result in this order;
\* the stream is closed only after all ten, and after the tenth the one step
\* left to POST is to close it; a rejected request puts nothing on a stream.
C1_TenEventsInOrder ==
    /\ Len(enqueued) <= Len(EventTypeOrder)
    /\ \A i \in 1..Len(enqueued) :
          /\ OneLine(enqueued[i])
          /\ \E parsed \in {JSONparse(ChunkLine(enqueued[i]))} :
                /\ parsed.ok
                /\ ~parsed.isNull
                /\ Field(parsed.obj, "type") = EventTypeOrder[i]
    /\ (postPc = "closed" => Len(enqueued) = Len(EventTypeOrder))
    /\ (postPc = "streaming" /\ ~cancelled /\ Len(enqueued) = Len(EventTypeOrder)
          => ENABLED PostClose /\ ~ENABLED PostEnqueue)
    /\ (postPc \in {"received", "rejected"} => enqueued = <<>>)

C1_Witness ==
    /\ postPc = "closed"
    /\ Len(enqueued) = 10
    /\ TypeOfChunk(enqueued[10]) = "result"

\* C6: every event of the sequence has a progress in [0,1] (0..100
\* hundredths), no event has a smaller progress than the event before it,
\* and the last event, after which the stream is closed, has progress 1.
C6_ProgressMonotone ==
    /\ \A i \in 1..Len(events) : events[i].progress \in 0..100
    /\ \A i \in 1..(Len(events) - 1) : events[i].progress <= events[i + 1].progress
    /\ (postPc = "closed" => events[Len(enqueued)].progress = 100)
    /\ (events # <<>> => events[Len(events)].progress = 100)

C6_Witness ==
    /\ postPc = "streaming"
    /\ Len(enqueued) = Len(events)
    /\ Len(events) = 10
    /\ events[10].progress = 100
    /\ events[1].progress = 8

\* the effective duration of the request and the timeline built from it
EffectiveDuration == events[10].deliverables.duration

TimelineSegments == events[5].segments

RECURSIVE SumDurations(_)
SumDurations(segs) == IF segs = <<>> THEN 0
                      ELSE Head(segs).duration + SumDurations(Tail(segs))

\* C7: the five segment durations of the timeline sum to the effective
\* duration, so the last segment ends at it; for 45 they are 8, 10, 9, 9, 9.
C7_DurationsSumToTarget ==
    events # <<>> =>
        /\ Len(TimelineSegments) = 5
        /\ SumDurations(TimelineSegments) = EffectiveDuration
        /\ TimelineSegments[5].start + TimelineSegments[5].duration
              = EffectiveDuration
        /\ (EffectiveDuration = 45 =>
               [i \in 1..5 |-> TimelineSegments[i].duration] = <<8, 10, 9, 9, 9>>)

C7_Witness ==
    /\ events # <<>>
    /\ EffectiveDuration = 45
    /\ TimelineSegments[5].start = 36

\* C8: the timeline has five segments, the first starts at 0, the starts do
\* not decrease, each segment starts where the one before it ends, every
\* segment but the last lasts 3 seconds at least, and the last segment ends
\* no earlier than the one before it.
C8_TimelineShape ==
    events # <<>> =>
        /\ Len(TimelineSegments) = 5
        /\ TimelineSegments[1].start = 0
        /\ \A i \in 1..4 :
              /\ TimelineSegments[i].start <= TimelineSegments[i + 1].start
              /\ TimelineSegments[i + 1].start
                    = TimelineSegments[i].start + TimelineSegments[i].duration
              /\ TimelineSegments[i].duration >= 3
        /\ TimelineSegments[5].start + TimelineSegments[5].duration
              >= TimelineSegments[4].start + TimelineSegments[4].duration

\* the shortest duration: the floor of three seconds decides the first beat
C8_Witness ==
    /\ events # <<>>
    /\ EffectiveDuration = 15
    /\ TimelineSegments[1].duration = 3
    /\ TimelineSegments[5].start = 12

Clamp(n) == IF n < 15 THEN 15 ELSE IF n > 120 THEN 120 ELSE n

\* C9: the duration the timeline is built from, which is the duration the
\* result reports, is parseInt of the length clamped to 15..120, and 45 when
\* the length is no number; a decimal numeral n gives n clamped.
C9_EffectiveDuration ==
    events # <<>> =>
        LET length == ReelRequestSchema(request).length
            numeric == parseInt(length)
        IN  /\ EffectiveDuration \in 15..120
            /\ (numeric.isNaN => EffectiveDuration = 45)
            /\ (~numeric.isNaN => EffectiveDuration = Clamp(numeric.value))
            /\ \A n \in 0..MaxLengthValue :
                  length = Decimal(n) => EffectiveDuration = Clamp(n)
            /\ TimelineSegments = buildTimeline(EffectiveDuration)

C9_Witness ==
    /\ events # <<>>
    /\ request.hasLength
    /\ parseInt(request.length).isNaN
    /\ request.length # <<>>
    /\ EffectiveDuration = 45

\* the cases the schema is written against: the body is no JSON, the topic
\* is missing, is no string or has fewer than 3 characters, the length is
\* given and is no string
InvalidBrief ==
    \/ ~request.json
    \/ ~request.hasTopic
    \/ ~request.topicIsString
    \/ Len(request.topic) < 3
    \/ (request.hasLength /\ ~request.lengthIsString)

\* C11: a request whose body is malformed, has no topic or a topic shorter
\* than 3 characters is answered with status 400 and the JSON body whose
\* error is "Invalid request payload"; no event sequence is built for it
\* and nothing is ever enqueued on a stream; no other request is answered
\* that way.
C11_InvalidRejected ==
    /\ InvalidBrief =>
          /\ postPc \in {"received", "rejected"}
          /\ events = <<>>
          /\ enqueued = <<>>
          /\ ~response.stream
          /\ (postPc = "received" => ENABLED PostReject /\ ~ENABLED PostAccept)
          /\ (postPc = "rejected" =>
                 /\ response.status = 400
                 /\ \E parsed \in {JSONparse(response.body)} :
                       /\ parsed.ok /\ ~parsed.isNull
                       /\ parsed.obj.error = "Invalid request payload"
                 /\ ~ENABLED NextPost)
    /\ postPc = "rejected" => InvalidBrief

\* a topic of two characters has been answered
C11_Witness ==
    /\ postPc = "rejected"
    /\ request.hasTopic
    /\ Len(request.topic) = 2
    /\ response.status = 400

\* a body that is no JSON has been answered
C11_NotJson == postPc = "rejected" /\ ~request.json

\* a brief without a topic has been answered
C11_NoTopic == postPc = "rejected" /\ request.json /\ ~request.hasTopic

\* after a cancellation nothing is enqueued, the event sequence is not
\* built again, the stream is not closed and not started again
AfterCancel ==
    cancelled => /\ enqueued' = enqueued
                 /\ events' = events
                 /\ cancelled'
                 /\ postPc' \in {"streaming", "errored"}

\* a closed stream was not cancelled and carries all events, the result last
ClosedAfterResult ==
    postPc = "closed" =>
        /\ ~cancelled
        /\ Len(enqueued) = Len(events)
        /\ events[Len(enqueued)].type = "result"

\* once the result is enqueued the producer's one step is to close
CloseIsNext ==
    /\ postPc = "streaming"
    /\ ~cancelled
    /\ enqueued # <<>>
    /\ events[Len(enqueued)].type = "result"
    => postPc' = "closed" \/ cancelled'

\* C12: once the client has cancelled the response stream the producer
\* enqueues no further event and starts nothing again; a stream that is not
\* cancelled is closed by the step after the enqueue of the result event,
\* and not before.
C12_CancelStopsEmission ==
    /\ [][AfterCancel]_vars
    /\ [][CloseIsNext]_vars
    /\ []ClosedAfterResult

\* the stream was cancelled between two events and start() has ended
C12_Witness ==
    /\ cancelled
    /\ postPc = "errored"
    /\ enqueued # <<>>
    /\ Len(enqueued) < Len(events)

\* the stream was cancelled before the first event left the delay
C12_CancelledEarly == cancelled /\ Len(enqueued) <= 1 /\ postPc = "errored"

(***************************************************************************)
(* The page: handleGenerate.  An invocation runs without interruption from *)
(* one await to the next: from its start to the fetch, from the response   *)
(* to the first read, from one read to the next.                           *)
(***************************************************************************)
\* the form as it is first rendered (INITIAL_FORM); no request is served here
IdlePost ==
    /\ request = [json |-> TRUE, hasTopic |-> TRUE, topicIsString |-> TRUE,
                  topic |-> <<"x", "x", "x">>, hasLength |-> TRUE,
                  lengthIsString |-> TRUE, length |-> <<"4", "5">>]
    /\ postPc = "received"
    /\ events = <<>>
    /\ enqueued = <<>>
    /\ cancelled = FALSE
    /\ response = NoResponse

InitHome == IdlePost /\ InitPage

NoBody == [lines |-> <<>>, tail |-> <<>>]

NewCall == [pc |-> "fetching", body |-> NoBody, wire |-> <<>>, buffer |-> <<>>,
            pending |-> <<>>, stale |-> FALSE]

\* an invocation ends completed (the stream ended) or failed (it threw)
IsLive(call) == call.pc \in {"fetching", "reading"}

InFlight == SelectSeq(calls, IsLive)

MarkStale(s) == [i \in 1..Len(s) |-> [s[i] EXCEPT !.stale = TRUE]]

UI == [statusFeed |-> statusFeed, assetVault |-> assetVault,
       segments |-> segments, result |-> result, progress |-> progress,
       thrown |-> null, log |-> log]

\* handleGenerate up to its fetch: the reset of the state hooks
handleGenerate ==
    /\ Len(InFlight) < MaxCalls
    /\ isGenerating' = TRUE
    /\ error' = null
    /\ progress' = 0
    /\ statusFeed' = <<>>
    /\ segments' = EmptyArray
    /\ assetVault' = EmptyObject
    /\ result' = NullResult
    /\ log' = <<>>
    /\ calls' = Append(MarkStale(InFlight), NewCall)
    /\ UNCHANGED postVars

\* the submit button is disabled while isGenerating
SubmitEnabled == ~isGenerating

SubmitForm == SubmitEnabled /\ handleGenerate

\* catch and finally of handleGenerate
Fail(c, message) ==
    /\ error' = message
    /\ isGenerating' = FALSE
    /\ calls' = [calls EXCEPT ![c].pc = "failed"]

\* the fetch resolves with a response that has a body
FetchResolves(c, bodies) ==
    /\ calls[c].pc = "fetching"
    /\ \E body \in bodies :
           calls' = [calls EXCEPT ![c].pc = "reading", ![c].body = body,
                                  ![c].wire = encode(bodyText(body))]
    /\ UNCHANGED <<postVars, statusFeed, assetVault, segments, result,
                   isGenerating, progress, error, log>>

\* the response has no body: throw new Error("Streaming channel unavailable.")
FetchNoBody(c) ==
    /\ calls[c].pc = "fetching"
    /\ Fail(c, "Streaming channel unavailable.")
    /\ UNCHANGED <<postVars, statusFeed, assetVault, segments, result, progress,
                   log>>

\* the fetch rejects
FetchRejects(c) ==
    /\ calls[c].pc = "fetching"
    /\ Fail(c, "Failed to fetch")
    /\ UNCHANGED <<postVars, statusFeed, assetVault, segments, result, progress,
                   log>>

\* reader.read() resolves with the next bytes of the body, one at least
ReadChunk(c) ==
    /\ calls[c].pc = "reading"
    /\ \E n \in 1..Len(calls[c].wire) :
       \E turn \in {readTurn(UI, calls[c], SubSeq(calls[c].wire, 1, n))} :
           /\ statusFeed' = turn.ui.statusFeed
           /\ assetVault' = turn.ui.assetVault
           /\ segments' = turn.ui.segments
           /\ result' = turn.ui.result
           /\ progress' = turn.ui.progress
           /\ log' = turn.ui.log
           /\ IF turn.ui.thrown # null
              THEN Fail(c, turn.ui.thrown)
              ELSE /\ calls' = [calls EXCEPT
                                   ![c].wire = SubSeq(calls[c].wire, n + 1,
                                                      Len(calls[c].wire)),
                                   ![c].buffer = turn.buffer,
                                   ![c].pending = turn.pending]
                   /\ UNCHANGED <<error, isGenerating>>
    /\ UNCHANGED postVars

\* a variant without the finally
ReadDoneNoFinally(c) ==
    /\ calls[c].pc = "reading"
    /\ calls[c].wire = <<>>
    /\ calls' = [calls EXCEPT ![c].pc = "completed"]
    /\ UNCHANGED <<postVars, statusFeed, assetVault, segments, result, progress,
                   error, log, isGenerating>>

\* reader.read() resolves with done: break, then finally
ReadDone(c) ==
    /\ calls[c].pc = "reading"
    /\ calls[c].wire = <<>>
    /\ isGenerating' = FALSE
    /\ calls' = [calls EXCEPT ![c].pc = "completed"]
    /\ UNCHANGED <<postVars, statusFeed, assetVault, segments, result, progress,
                   error, log>>

\* reader.read() rejects: the connection broke
ReadRejects(c) ==
    /\ calls[c].pc = "reading"
    /\ Fail(c, "network error")
    /\ UNCHANGED <<postVars, statusFeed, assetVault, segments, result, progress,
                   log>>

Next ==
    \/ SubmitForm
    \/ \E c \in 1..Len(calls) : FetchResolves(c, Bodies)
    \/ \E c \in 1..Len(calls) : FetchNoBody(c)
    \/ \E c \in 1..Len(calls) : FetchRejects(c)
    \/ \E c \in 1..Len(calls) : ReadChunk(c)
    \/ \E c \in 1..Len(calls) : ReadDone(c)
    \/ \E c \in 1..Len(calls) : ReadRejects(c)

Spec == InitHome /\ [][Next]_vars

(***************************************************************************)
(* Properties of the page.                                                 *)
(***************************************************************************)
\* the page right after the reset of handleGenerate
ResetUI == [statusFeed |-> <<>>, assetVault |-> EmptyObject,
            segments |-> EmptyArray, result |-> NullResult, progress |-> 0,
            thrown |-> null, log |-> <<>>]

\* the same lines, every line arriving as a chunk of its own
RECURSIVE OwnChunks(_, _, _)
OwnChunksNext(turn, call, rest) ==
    OwnChunks(turn.ui, [call EXCEPT !.buffer = turn.buffer,
                                    !.pending = turn.pending], rest)

OwnChunks(ui, call, lines) ==
    IF lines = <<>> \/ ui.thrown # null
    THEN [ui |-> ui, buffer |-> call.buffer, pending |-> call.pending]
    ELSE OwnChunksNext(readTurn(ui, call, encode(Head(lines) \o <<"\n">>)),
                       call, Tail(lines))

\* the bytes of its body that invocation c has been handed
Delivered(c) ==
    SubSeq(encode(bodyText(calls[c].body)), 1,
           Len(encode(bodyText(calls[c].body))) - Len(calls[c].wire))

\* the lines of the body whose line feed has been handed over
NewlineCount(bytes) == Cardinality({k \in 1..Len(bytes) : bytes[k] = "\n"})

CompleteLines(c) ==
    SubSeq(calls[c].body.lines, 1, NewlineCount(Delivered(c)))

SameUI(ui) ==
    /\ statusFeed = ui.statusFeed
    /\ assetVault = ui.assetVault
    /\ segments = ui.segments
    /\ result = ui.result
    /\ progress = ui.progress
    /\ log = ui.log

RECURSIVE NonBlank(_)
NonBlank(lines) ==
    IF lines = <<>> THEN <<>>
    ELSE (IF trim(Head(lines)) = <<>> THEN <<>> ELSE <<Head(lines)>>)
         \o NonBlank(Tail(lines))

Throws(line) == ~JSONparse(line).ok \/ JSONparse(line).isNull

\* the lines up to and with the first one on which the loop throws
RECURSIVE UpToThrow(_)
UpToThrow(lines) ==
    IF lines = <<>> THEN <<>>
    ELSE IF Throws(Head(lines)) THEN <<Head(lines)>>
    ELSE <<Head(lines)>> \o UpToThrow(Tail(lines))

LogLines == [i \in 1..Len(log) |-> log[i].line]

ThrownMessages == {"Unexpected token in JSON", "Cannot read properties of null"}

\* C2: however the body is cut into chunks, the read loop hands to JSON.parse
\* the lines that are not blank, each once and in their order (up to a line
\* on which it throws), and the page is in the state it reaches when every
\* line arrives as a chunk of its own; the rest of a cut line is kept in the
\* buffer with nothing lost.
C2_ChunkingIrrelevant ==
    \A c \in 1..Len(calls) :
       /\ calls[c].pc \in {"reading", "completed"} =>
             \E handed \in {Delivered(c)} :
             \E lines \in {SubSeq(calls[c].body.lines, 1, NewlineCount(handed))} :
             \E ref \in {OwnChunks(ResetUI, NewCall, lines)} :
                /\ SameUI(ref.ui)
                /\ ref.ui.thrown = null
                /\ LogLines = NonBlank(lines)
                /\ (calls[c].pc = "reading" =>
                       encode(joinLines(lines) \o calls[c].buffer)
                          \o calls[c].pending = handed)
       /\ calls[c].pc = "failed" /\ error \in ThrownMessages =>
             \E ref \in {OwnChunks(ResetUI, NewCall, calls[c].body.lines)} :
                /\ SameUI(ref.ui)
                /\ ref.ui.thrown = error
                /\ LogLines = UpToThrow(NonBlank(calls[c].body.lines))

\* a line is cut inside its three-byte character, and two lines were read
C2_Witness ==
    \E c \in 1..Len(calls) :
       /\ calls[c].pc = "reading"
       /\ calls[c].pending # <<>>
       /\ calls[c].buffer # <<>>
       /\ Len(calls[c].body.lines) = 2
       /\ calls[c].body.lines[1] # calls[c].body.lines[2]
       /\ Len(CompleteLines(c)) = 1
       /\ Len(log) = 1

KnownTypes == {"status", "asset", "timeline", "result"}

\* a line the page cannot take as an event: no JSON, or no known type
Unusable(line) ==
    \/ Throws(line)
    \/ Field(JSONparse(line).obj, "type") \notin KnownTypes

RECURSIVE BeforeUnusable(_)
BeforeUnusable(lines) ==
    IF lines = <<>> \/ Unusable(Head(lines)) THEN <<>>
    ELSE <<Head(lines)>> \o BeforeUnusable(Tail(lines))

HasUnusable(lines) == \E i \in 1..Len(lines) : Unusable(lines[i])

\* C3: once a line that is not blank and is no JSON, or has none of the four
\* types, has been read, the error is set, the invocation has ended, and the
\* page holds what the lines before that line folded into it and nothing of
\* a later line.
C3_BadLineStops ==
    \A c \in 1..Len(calls) :
       calls[c].pc \in {"reading", "completed"}
       /\ HasUnusable(NonBlank(CompleteLines(c)))
       => /\ error # null
          /\ ~IsLive(calls[c])
          /\ SameUI([OwnChunks(ResetUI, NewCall,
                               BeforeUnusable(NonBlank(CompleteLines(c)))).ui
                     EXCEPT !.log = log])

\* what holds of a line on which the loop throws: the error is the message
\* of the throw, and the page holds what the lines before it folded
ThrowStops ==
    \A c \in 1..Len(calls) :
       calls[c].pc = "failed" /\ error \in ThrownMessages
       => /\ ~isGenerating
          /\ Throws(log[Len(log)].line)
          /\ \A i \in 1..(Len(log) - 1) : ~Throws(log[i].line)

\* C5: when the stream has ended, the invocation is over with isGenerating
\* false and error null; a body that carried no result line leaves result
\* null, and statusFeed, assetVault, segments are what the lines of the body
\* folded into them.
FoldOf(lines) == forLines(ResetUI, lines, FALSE)

HasResult(lines) ==
    \E i \in 1..Len(lines) : Field(JSONparse(lines[i]).obj, "type") = "result"

C5_EndOfStreamCompletes ==
    \A c \in 1..Len(calls) :
       calls[c].pc = "completed"
       => /\ ~isGenerating
          /\ error = null
          /\ calls[c].wire = <<>>
          /\ (~HasResult(calls[c].body.lines) => result = NullResult)
          /\ \E fold \in {FoldOf(calls[c].body.lines)} :
                /\ statusFeed = fold.statusFeed
                /\ assetVault = fold.assetVault
                /\ segments = fold.segments

C5_Witness ==
    \E c \in 1..Len(calls) :
       /\ calls[c].pc = "completed"
       /\ Len(calls[c].body.lines) = 2
       /\ ~HasResult(calls[c].body.lines)
       /\ Len(statusFeed) = 1
       /\ DOMAIN assetVault = {"script"}
       /\ result = NullResult
       /\ ~isGenerating

\* the asset events folded since the reset, in their order
IsAsset(line) == ~Throws(line) /\ Field(JSONparse(line).obj, "type") = "asset"

AssetsFolded == SelectSeq(LogLines, IsAsset)

SlotOf(line) == Field(JSONparse(line).obj, "artifact")

LastFor(folded, slot) ==
    CHOOSE i \in 1..Len(folded) :
       /\ SlotOf(folded[i]) = slot
       /\ \A j \in (i + 1)..Len(folded) : SlotOf(folded[j]) # slot

\* C10: assetVault has an entry for exactly the slots of the asset events
\* folded since the reset, one entry a slot, and the entry of a slot is the
\* asset event folded last for that slot, whatever was folded for the other
\* slots and however often the same event was folded.
C10_VaultLastWriteWins ==
    \E folded \in {AssetsFolded} :
       /\ DOMAIN assetVault = {SlotOf(folded[i]) : i \in 1..Len(folded)}
       /\ DOMAIN assetVault \subseteq {"script", "voicePlan", "overlays"}
       /\ \A slot \in DOMAIN assetVault :
             assetVault[slot] = JSONparse(folded[LastFor(folded, slot)]).obj

\* two different events were folded for one slot: the later is the entry
C10_Witness ==
    /\ Len(AssetsFolded) = 2
    /\ SlotOf(AssetsFolded[1]) = SlotOf(AssetsFolded[2])
    /\ AssetsFolded[1] # AssetsFolded[2]
    /\ DOMAIN assetVault = {SlotOf(AssetsFolded[2])}
    /\ assetVault[SlotOf(AssetsFolded[2])] = JSONparse(AssetsFolded[2]).obj

\* events for two slots were folded: both entries are there
C10_TwoSlots ==
    /\ DOMAIN assetVault = {"script", "overlays"}
    /\ Len(AssetsFolded) = 2

(***************************************************************************)
(* handleGenerate invoked whatever isGenerating is: the function itself    *)
(* asks nothing before it resets the page.  The bodies are short here.     *)
(***************************************************************************)
ReentrantBodies == [lines : Strings({stringify(WireEvents[1]),
                                     stringify(WireEvents[2])}, 1),
                    tail : {<<>>}]

NextReentrant ==
    \/ handleGenerate
    \/ \E c \in 1..Len(calls) : FetchResolves(c, ReentrantBodies)
    \/ \E c \in 1..Len(calls) : FetchNoBody(c)
    \/ \E c \in 1..Len(calls) : FetchRejects(c)
    \/ \E c \in 1..Len(calls) : ReadChunk(c)
    \/ \E c \in 1..Len(calls) : ReadDone(c)
    \/ \E c \in 1..Len(calls) : ReadRejects(c)

SpecReentrant == InitHome /\ [][NextReentrant]_vars

\* C4: after a newer invocation has reset the page, no line read by an
\* earlier invocation is folded into it: every line handed to JSON.parse
\* since the last reset was read by the newest invocation.
C4_NoStaleFold == \A i \in 1..Len(log) : ~log[i].stale

\* while the newest invocation is in flight the page shows it as generating
GeneratingWhileNewestInFlight ==
    calls # <<>> /\ IsLive(calls[Len(calls)]) => isGenerating

\* through the form, no invocation starts while another is in flight
OneInFlight == Len(InFlight) <= 1 /\ (isGenerating <=> Len(InFlight) = 1)

(***************************************************************************)
(* The progress bar.  The bodies are lines whose progress values rise,     *)
(* fall or are missing, among them result events with and without one.     *)
(***************************************************************************)
ResultWithoutProgress == [type |-> "result", deliverables |-> [duration |-> 45]]

ProgressLines == {stringify(WireEvents[1]), stringify(WireEvents[2]),
                  stringify(WireEvents[3]), stringify(WireEvents[4]),
                  stringify(WireEvents[6]), stringify(ResultWithoutProgress)}

ProgressBodies == [lines : Strings(ProgressLines, MaxLines), tail : {<<>>}]

NextProgress ==
    \/ SubmitForm
    \/ \E c \in 1..Len(calls) : FetchResolves(c, ProgressBodies)
    \/ \E c \in 1..Len(calls) : FetchNoBody(c)
    \/ \E c \in 1..Len(calls) : FetchRejects(c)
    \/ \E c \in 1..Len(calls) : ReadChunk(c)
    \/ \E c \in 1..Len(calls) : ReadDone(c)
    \/ \E c \in 1..Len(calls) : ReadRejects(c)

SpecProgress == InitHome /\ [][NextProgress]_vars

\* the events folded since the reset: the lines of the log that parse
Folded == [i \in 1..Len(log) |-> JSONparse(log[i].line).obj]

HasProgress(i) == "progress" \in DOMAIN Folded[i]

\* the progress values seen since the reset, in hundredths
ProgressSeen == {NumberOf(Folded[i].progress) : i \in {j \in 1..Len(log) : HasProgress(j)}}

MaxOf(S) == CHOOSE m \in S : \A n \in S : n <= m

ResultFolded == \E i \in 1..Len(log) : Field(Folded[i], "type") = "result"

\* the claim as it is worded: at every moment progress is the maximum of 0
\* and the progress values seen, and it is 1 once a result is folded
C13_RunningMaxAlways ==
    /\ progress = MaxOf(ProgressSeen \cup {0})
    /\ (ResultFolded => progress = 100)

ProgressAsFolded ==
    progress = IF ResultFolded THEN 100 ELSE MaxOf(ProgressSeen \cup {0})

\* C13: within one submission progress never decreases; as long as no
\* result event is folded it is the maximum of 0 and the progress values
\* seen so far, whether they rise, fall or are missing, and from the fold of
\* a result event on it is 1.
C13_ProgressMonotone ==
    /\ [][progress' >= progress \/ SubmitForm]_vars
    /\ []ProgressAsFolded

\* a smaller progress value was folded after a larger one and before any
\* result
C13_Witness ==
    /\ ~ResultFolded
    /\ \E i, j \in 1..Len(log) :
          /\ i < j
          /\ HasProgress(i) /\ HasProgress(j)
          /\ NumberOf(Folded[j].progress) < NumberOf(Folded[i].progress)
          /\ progress = NumberOf(Folded[i].progress)

\* an event without a progress value was folded
C13_MissingSeen ==
    /\ ~ResultFolded
    /\ progress > 0
    /\ \E i \in 1..Len(log) : ~HasProgress(i)

\* a result event without a progress value was folded after a smaller value
C13_ForcedByResult ==
    /\ progress = 100
    /\ ProgressSeen # {}
    /\ 100 \notin ProgressSeen

(***************************************************************************)
(* One submission from the form to its end: the page posts the brief of    *)
(* the form, the endpoint answers it, the page reads the answer.  The      *)
(* bytes of the answer reach reader.read() in chunks of any size.          *)
(***************************************************************************)
\* the options of the length select
LengthOptions == {30, 45, 60, 75}

\* JSON.stringify(form): the topic is what was typed, the length an option
FormRequests ==
    {[json |-> TRUE, hasTopic |-> TRUE, topicIsString |-> TRUE, topic |-> t,
      hasLength |-> TRUE, lengthIsString |-> TRUE, length |-> Decimal(n)] :
        t \in TopicInputs, n \in LengthOptions}

InitSession ==
    /\ request \in FormRequests
    /\ postPc = "received"
    /\ events = <<>>
    /\ enqueued = <<>>
    /\ cancelled = FALSE
    /\ response = NoResponse
    /\ InitPage

\* the request is on its way or being served
Posted == \E c \in 1..Len(calls) : calls[c].pc = "fetching"

\* the body of the response: the text of the 400 response, which no line
\* feed ends, or the lines that were enqueued on the stream
ResponseBody ==
    IF response.stream
    THEN [lines |-> [i \in 1..Len(enqueued) |-> stringify(events[i])],
          tail |-> <<>>]
    ELSE [lines |-> <<>>, tail |-> response.body]

ResponseComplete == postPc \in {"rejected", "closed"}

NextSession ==
    \/ calls = <<>> /\ SubmitForm
    \/ Posted /\ PostReject
    \/ Posted /\ PostAccept
    \/ PostEnqueue
    \/ PostClose
    \/ \E c \in 1..Len(calls) :
          ResponseComplete /\ FetchResolves(c, {ResponseBody})
    \/ \E c \in 1..Len(calls) : FetchRejects(c)
    \/ \E c \in 1..Len(calls) : ReadChunk(c)
    \/ \E c \in 1..Len(calls) : ReadDone(c)
    \/ \E c \in 1..Len(calls) : ReadRejects(c)

SpecSession == InitSession /\ [][NextSession]_vars

Finished == calls # <<>> /\ \A c \in 1..Len(calls) : ~IsLive(calls[c])

NothingFolded ==
    /\ statusFeed = <<>>
    /\ assetVault = EmptyObject
    /\ segments = EmptyArray
    /\ result = NullResult

\* C14: when the endpoint has answered the brief with the 400 response and
\* the submission has finished, error is set, isGenerating is false and no
\* event has been folded into statusFeed, assetVault, segments or result.
C14_RejectedBriefFails ==
    postPc = "rejected" /\ Finished =>
        /\ error # null
        /\ ~isGenerating
        /\ NothingFolded

\* what the page does with the 400 response: the submission ends as one
\* whose stream ended, without an error
RejectedEndsCompleted ==
    \A c \in 1..Len(calls) :
       postPc = "rejected" /\ calls[c].pc = "completed" =>
           /\ error = null
           /\ ~isGenerating
           /\ NothingFolded
           /\ log = <<>>

RejectedCompleted ==
    \E c \in 1..Len(calls) : postPc = "rejected" /\ calls[c].pc = "completed"

\* the stream of an accepted brief was read to its end
StreamConsumed ==
    /\ postPc = "closed"
    /\ \E c \in 1..Len(calls) : calls[c].pc = "completed"

StatusOrder == <<"briefing", "ideation", "shotlist", "voice", "render">>

\* C15: once the page has read the whole stream of a valid brief, result is
\* set and agrees with what was folded before it: its script, voicePlan and
\* overlays are the contents of the assetVault entries of these slots, its
\* segments are the segments the timeline event set, its duration is the
\* effective duration of the brief's length, and statusFeed holds the five
\* status events in the order they were emitted.
C15_ResultAgrees ==
    StreamConsumed =>
        /\ ~result.isNull
        /\ DOMAIN assetVault = {"script", "voicePlan", "overlays"}
        /\ \A slot \in DOMAIN assetVault :
              result.value[slot] = assetVault[slot].content
        /\ result.value.script # result.value.overlays
        /\ result.value.segments = segments
        /\ \E n \in LengthOptions :
              /\ request.length = Decimal(n)
              /\ result.value.duration = ToString(Clamp(n))
              /\ TimelineSegments = buildTimeline(Clamp(n))
        /\ segments = ToString(TimelineSegments)
        /\ [i \in 1..Len(statusFeed) |-> statusFeed[i].id] = StatusOrder
        /\ \A i \in 1..Len(statusFeed) : statusFeed[i].type = "status"
        /\ error = null
        /\ progress = 100

\* the stream of a brief of 60 seconds was read to its end
C15_Witness ==
    /\ StreamConsumed
    /\ request.length = <<"6", "0">>
    /\ ~result.isNull
    /\ Len(statusFeed) = 5

====
